---------------------------- MODULE Spec2Model ----------------------------
(***************************************************************************)
(* A model of Tensile/BenchmarkProblems.py: the enumeration of candidate   *)
(* solutions of a benchmark step (generateForkedSolutions,                 *)
(* generateCustomKernelSolutions), the per-step pipeline                   *)
(* (benchmarkProblemType) and the driver (main) with its result cache on   *)
(* disk and its working-path stack.                                        *)
(***************************************************************************)
EXTENDS Integers, Sequences, FiniteSets, TLC

(***************************************************************************)
(* Bounds of the model.                                                    *)
(***************************************************************************)
\* longest list of fork permutations handed to generateForkedSolutions
MaxPerms == 3
\* longest list of custom kernel names handed to generateCustomKernelSolutions
MaxKernels == 3

(***************************************************************************)
(* Values.                                                                 *)
(***************************************************************************)
\* a ProblemType: its state, compared by full equality
ProblemTypes == [Batched : BOOLEAN, TileAwareSelection : BOOLEAN]

\* the values a tile parameter takes in the model
TileValues == {64, 128}

TilePairs == TileValues \X TileValues

\* the solution parameters a benchmark step sets (constant or forked)
ParamNames == {"MacroTile0", "MacroTile1"}

\* a dictionary of solution parameters: any subset of the names, each with a value
ParamMaps ==
  UNION {[names -> TileValues] : names \in SUBSET ParamNames}

\* d.update(u) of Python: u's entries win
DictUpdate(d, u) == u @@ d

\* the names in the custom kernel directory
KernelNames == {"kA", "kB", "kC", "kD"}

\* the stored configuration of each custom kernel (getCustomKernelConfig)
CustomKernelConfig(kernelName) ==
  CASE kernelName = "kA" ->
         [ProblemType |-> [Batched |-> TRUE, TileAwareSelection |-> FALSE],
          MacroTile0 |-> 128, MacroTile1 |-> 64]
    [] kernelName = "kB" ->
         [ProblemType |-> [Batched |-> FALSE, TileAwareSelection |-> FALSE],
          MacroTile0 |-> 64, MacroTile1 |-> 64]
    [] kernelName = "kD" ->
         [ProblemType |-> [Batched |-> TRUE, TileAwareSelection |-> FALSE],
          MacroTile0 |-> 128, MacroTile1 |-> 128]
    [] OTHER ->
         [ProblemType |-> [Batched |-> TRUE, TileAwareSelection |-> FALSE],
          MacroTile0 |-> 64, MacroTile1 |-> 128]

\* bounded sequences over S
SeqUpTo(S, n) == UNION {[1..k -> S] : k \in 0..n}

VARIABLES
  \* ---- enumeration (generateForkedSolutions, generateCustomKernelSolutions)
  validTiles,     \* the validity predicate of Solution: the valid tile pairs
  inp,            \* the arguments of the call under study
  out             \* its result; out.kind = "none" before the call

VARIABLES
  \* ---- the configuration and the environment of the driver
  config,              \* the (problem type, size group) pairs, in order
  failsToGenerate,     \* the tile pairs whose kernels the generator cannot build
  \* ---- the process
  runNo,               \* the runs of the driver started so far
  pc,                  \* where the driver is
  ForceRedo,           \* globalParameters["ForceRedoBenchmarkProblems"]
  ExitOnFails,         \* globalParameters["ExitOnFails"], as read at line 376
  WorkingPath,         \* the working-path stack (pushWorkingPath, popWorkingPath)
  entryPath,           \* the stack when main was entered
  pairIdx,             \* the pair main is at
  totalTestFails,      \* main's counter
  stepIdx,             \* benchmarkStepIdx + 1
  benchmarkTestFails,  \* benchmarkProblemType's counter
  resultsFileBaseFinal,
  resultsFileBase,
  solutions,           \* the solutions of the step in progress
  clientConfig,        \* what writeClientConfig was given for the step
  exitStatus,          \* the status the process ended with, -1 while it runs
  abortReason,         \* why the process was aborted, "" if it was not
  disk,                \* the files that exist, with their contents
  \* ---- history
  clientLog,           \* the client invocations of this run: pair, step, rc
  pipelineLog,         \* the pairs benchmarkProblemType was called for, this run
  promotedLog,         \* the pairs whose artifacts this run promoted
  stepLog,             \* the phases the steps of this run went through, in order
  prevRun,             \* how the previous run ended: "none" for the first run,
                       \* "completed" after a run through all the pairs,
                       \* "aborted" after a fatal exit or an exception
  prevFailed           \* the pairs for which a client invocation of the
                       \* previous run returned non-zero

evars == <<validTiles, inp, out>>

cfgvars == <<config, failsToGenerate>>

pvars ==
  <<runNo, pc, ForceRedo, ExitOnFails, WorkingPath, entryPath, pairIdx,
    totalTestFails, stepIdx, benchmarkTestFails, resultsFileBaseFinal,
    resultsFileBase, solutions, clientConfig, exitStatus, abortReason, disk,
    clientLog, pipelineLog, promotedLog, stepLog, prevRun, prevFailed>>

vars == <<evars, cfgvars, pvars>>

(***************************************************************************)
(* Solution objects (SolutionStructs.Solution, used through its           *)
(* constructor, solution["Valid"], equality and hashing).                  *)
(***************************************************************************)
\* the parameters a Solution has when its configuration leaves them out
defaultSolution ==
  [MacroTile0 |-> 64, MacroTile1 |-> 64,
   KernelLanguage |-> "Source", CustomKernelName |-> ""]

\* Solution(kernelConfig): the state completed with the defaults, Valid assigned by
\* the validity predicate over the completed state
Solution(kernelConfig, valid) ==
  LET state == DictUpdate(defaultSolution, kernelConfig)
  IN  DictUpdate(state,
        [Valid |-> (<<state.MacroTile0, state.MacroTile1>> \in valid)])

(***************************************************************************)
(* generateForkedSolutions                                                 *)
(***************************************************************************)
\* a mutant of ForkedConfig: the updates in the other order, so that a constant
\* parameter wins over the permutation
ForkedConfig_ConstantWins(problemType, constantParams, perm) ==
  DictUpdate(DictUpdate([ProblemType |-> problemType], perm), constantParams)

\* lines 52-54: the configuration of one permutation
ForkedConfig(problemType, constantParams, perm) ==
  DictUpdate(DictUpdate([ProblemType |-> problemType], constantParams), perm)

\* a mutant of KeepForked: the duplicate test is dropped
KeepForked_NoDedup(solutionObject, solutionSet) ==
  solutionObject.Valid

\* lines 58-59: a solution is kept iff it is valid and not in solutionSet
KeepForked(solutionObject, solutionSet) ==
  solutionObject.Valid /\ solutionObject \notin solutionSet

\* lines 58, 62: the notice is on the branch of the validity test only
RejectionPrinted(solutionObject, solutionSet, printReason) ==
  ~solutionObject.Valid /\ printReason

\* lines 51-63: the loop from permutation i on; the state of the loop is the
\* list, the set and the notices printed so far
RECURSIVE ForkedLoop(_, _, _, _, _, _)
ForkedLoop(i, problemType, constantParams, forkPermutations, printReason, acc) ==
  IF i > Len(forkPermutations) THEN acc
  ELSE
    LET solutionObject ==
          Solution(ForkedConfig(problemType, constantParams,
                                forkPermutations[i]), validTiles)
        keep == KeepForked(solutionObject, acc.solutionSet)
        next ==
          [solutions   |-> IF keep THEN Append(acc.solutions, solutionObject)
                           ELSE acc.solutions,
           solutionSet |-> IF keep THEN acc.solutionSet \cup {solutionObject}
                           ELSE acc.solutionSet,
           rejected    |-> IF RejectionPrinted(solutionObject, acc.solutionSet,
                                               printReason)
                           THEN Append(acc.rejected, i)
                           ELSE acc.rejected]
    IN  ForkedLoop(i + 1, problemType, constantParams, forkPermutations,
                   printReason, next)

\* lines 45-65, with the notices printed on the way
ForkedRun(problemType, constantParams, forkPermutations, printReason) ==
  ForkedLoop(1, problemType, constantParams, forkPermutations, printReason,
             [solutions |-> <<>>, solutionSet |-> {}, rejected |-> <<>>])

\* lines 45-65: the list returned
generateForkedSolutions(problemType, constantParams, forkPermutations) ==
  ForkedRun(problemType, constantParams, forkPermutations, FALSE).solutions

(***************************************************************************)
(* generateCustomKernelSolutions                                           *)
(***************************************************************************)
\* lines 67-75: the Solution of a custom kernel. The configurations in the
\* kernel directory are well formed: getCustomKernelConfig finds each name and
\* checkParametersAreValid accepts its parameters.
getCustomKernelSolutionObj(kernelName) ==
  Solution(DictUpdate(CustomKernelConfig(kernelName),
                      [KernelLanguage |-> "Assembly",
                       CustomKernelName |-> kernelName]),
           validTiles)

\* a mutant of ProblemTypeMismatch: the problem types are never compared
ProblemTypeMismatch_Never(solution, problemType) ==
  FALSE

\* line 83
ProblemTypeMismatch(solution, problemType) ==
  solution.ProblemType # problemType

\* lines 80-106: the loop from name i on; printExit (line 98) ends the process,
\* so the loop stops there with aborted set
RECURSIVE CustomLoop(_, _, _, _, _)
CustomLoop(i, problemType, customKernels, failOnMismatch, kept) ==
  IF i > Len(customKernels)
  THEN [aborted |-> FALSE, solutions |-> kept]
  ELSE
    LET solution == getCustomKernelSolutionObj(customKernels[i])
    IN  IF ProblemTypeMismatch(solution, problemType)
        THEN IF failOnMismatch
             THEN [aborted |-> TRUE, solutions |-> kept]
             ELSE CustomLoop(i + 1, problemType, customKernels,
                             failOnMismatch, kept)
        ELSE CustomLoop(i + 1, problemType, customKernels, failOnMismatch,
                        IF solution.Valid THEN Append(kept, solution)
                        ELSE kept)

\* lines 77-108
generateCustomKernelSolutions(problemType, customKernels, failOnMismatch) ==
  CustomLoop(1, problemType, customKernels, failOnMismatch, <<>>)

(***************************************************************************)
(* writeBenchmarkFiles                                                     *)
(***************************************************************************)
\* line 154: writeSolutionsAndKernels, error tolerant, drops from the list the
\* solutions whose kernels the generator cannot build
writeSolutionsAndKernels(sols) ==
  SelectSeq(sols, LAMBDA x : <<x.MacroTile0, x.MacroTile1>> \notin failsToGenerate)

RECURSIVE MaxOver(_, _, _)
\* lines 167-175: the largest value of a parameter over the solutions, from 0
MaxOver(sols, name, i) ==
  IF i > Len(sols) THEN 0
  ELSE LET rest == MaxOver(sols, name, i + 1)
       IN  IF sols[i][name] > rest THEN sols[i][name] ELSE rest

\* a mutant of IdealSizes: the two tile dimensions are exchanged
IdealSizes_Exchanged(problemType, sols, solutionSummationSizes) ==
  LET idealM == 36 * MaxOver(sols, "MacroTile1", 1)
      idealN == 36 * MaxOver(sols, "MacroTile0", 1)
  IN  [k \in 1..Len(solutionSummationSizes) |->
        IF problemType.Batched
        THEN [Exact |-> <<idealM, idealN, 1, solutionSummationSizes[k]>>]
        ELSE [Exact |-> <<idealM, idealN, solutionSummationSizes[k]>>]]

\* lines 176-186: the synthetic sizes of tile aware selection
IdealSizes(problemType, sols, solutionSummationSizes) ==
  LET idealM == 36 * MaxOver(sols, "MacroTile0", 1)
      idealN == 36 * MaxOver(sols, "MacroTile1", 1)
  IN  [k \in 1..Len(solutionSummationSizes) |->
        IF problemType.Batched
        THEN [Exact |-> <<idealM, idealN, 1, solutionSummationSizes[k]>>]
        ELSE [Exact |-> <<idealM, idealN, solutionSummationSizes[k]>>]]

\* a mutant of NoSolutionsLeft: the test is lost
NoSolutionsLeft_Never(left) == FALSE

\* line 194
NoSolutionsLeft(left) == Len(left) = 0

\* lines 110-195: the solutions left, what writeClientConfig is given, and
\* whether line 195 aborts. problemType is that of the first solution on entry.
writeBenchmarkFiles(sols, problemSizes, stepName, solutionSummationSizes) ==
  LET problemType == sols[1].ProblemType
      left == writeSolutionsAndKernels(sols)
      tile == problemType.TileAwareSelection
  IN  [solutions |-> left,
       clientConfig |->
         [solutions |-> left,
          problemSizes |-> IF tile
                           THEN IdealSizes(problemType, left, solutionSummationSizes)
                           ELSE problemSizes,
          stepName |-> stepName,
          tileSelection |-> tile],
       aborted |-> NoSolutionsLeft(left)]

(***************************************************************************)
(* The specification of one call of generateForkedSolutions, of            *)
(* generateCustomKernelSolutions or of writeBenchmarkFiles, on arguments   *)
(* drawn from bounded sets.                                                *)
(***************************************************************************)
\* longest list of solutions handed to writeBenchmarkFiles
MaxSolutions == 2
\* longest list of summation sizes handed to writeBenchmarkFiles
MaxSizes == 2

\* the summation sizes the calls under study are given
SummationSizes == {256, 512}

\* the problem sizes of a benchmark step (benchmarkStep.problemSizes)
StepProblemSizes == <<[Exact |-> <<128, 128, 1, 64>>]>>

\* the constant parameters the calls under study are given
ConstantParamSets ==
  {<<>>} \cup {[MacroTile0 |-> v] : v \in TileValues}

InitExpand ==
  /\ validTiles \in SUBSET TilePairs
  /\ inp \in [problemType : {[Batched |-> FALSE, TileAwareSelection |-> FALSE],
                             [Batched |-> TRUE, TileAwareSelection |-> TRUE]},
              constantParams : ConstantParamSets,
              forkPermutations : SeqUpTo(ParamMaps, MaxPerms),
              printReason : BOOLEAN]
  /\ failsToGenerate = {}
  /\ out = [kind |-> "none"]

InitResolve ==
  /\ validTiles \in SUBSET TilePairs
  /\ inp \in [problemType : ProblemTypes,
              customKernels : SeqUpTo(KernelNames, MaxKernels),
              failOnMismatch : BOOLEAN]
  /\ failsToGenerate = {}
  /\ out = [kind |-> "none"]

\* a call of writeBenchmarkFiles: a non-empty list of solutions of one problem
\* type, given by their tiles, and a generator that fails on some tiles
InitWrite ==
  /\ validTiles = TilePairs
  /\ inp \in [problemType : ProblemTypes,
              tiles : SeqUpTo(TilePairs, MaxSolutions) \ {<<>>},
              problemSizes : {StepProblemSizes},
              solutionSummationSizes : SeqUpTo(SummationSizes, MaxSizes)]
  /\ failsToGenerate \in SUBSET {<<64, 128>>, <<128, 64>>}
  /\ out = [kind |-> "none"]

\* no driver runs in the calls under study
NoDriver ==
  /\ config = <<>>
  /\ runNo = 0
  /\ pc = "idle"
  /\ ForceRedo = FALSE
  /\ ExitOnFails = FALSE
  /\ WorkingPath = <<>>
  /\ entryPath = <<>>
  /\ pairIdx = 0
  /\ totalTestFails = 0
  /\ stepIdx = 0
  /\ benchmarkTestFails = 0
  /\ resultsFileBaseFinal = <<>>
  /\ resultsFileBase = <<>>
  /\ solutions = <<>>
  /\ clientConfig = <<>>
  /\ exitStatus = -1
  /\ abortReason = ""
  /\ disk = <<>>
  /\ clientLog = <<>>
  /\ pipelineLog = <<>>
  /\ promotedLog = <<>>
  /\ stepLog = <<>>
  /\ prevRun = "none"
  /\ prevFailed = {}

InitEnum == (InitExpand \/ InitResolve \/ InitWrite) /\ NoDriver

Expand ==
  /\ out.kind = "none"
  /\ "forkPermutations" \in DOMAIN inp
  /\ LET r == ForkedRun(inp.problemType, inp.constantParams,
                        inp.forkPermutations, inp.printReason)
     IN  out' = [kind |-> "forked", solutions |-> r.solutions,
                 rejected |-> r.rejected]
  /\ UNCHANGED <<validTiles, inp, cfgvars, pvars>>

Resolve ==
  /\ out.kind = "none"
  /\ "customKernels" \in DOMAIN inp
  /\ LET r == generateCustomKernelSolutions(inp.problemType, inp.customKernels,
                                            inp.failOnMismatch)
     IN  out' = [kind |-> "custom", aborted |-> r.aborted,
                 solutions |-> r.solutions]
  /\ UNCHANGED <<validTiles, inp, cfgvars, pvars>>

\* the solutions of a call of writeBenchmarkFiles, from their tiles
WriteSolutions ==
  [i \in 1..Len(inp.tiles) |->
    Solution([ProblemType |-> inp.problemType,
              MacroTile0 |-> inp.tiles[i][1], MacroTile1 |-> inp.tiles[i][2]],
             validTiles)]

WriteFiles ==
  /\ out.kind = "none"
  /\ "solutionSummationSizes" \in DOMAIN inp
  /\ LET w == writeBenchmarkFiles(WriteSolutions, inp.problemSizes,
                                  <<"step", 1>>, inp.solutionSummationSizes)
     IN  out' = [kind |-> "written", solutions |-> w.solutions,
                 clientConfig |-> w.clientConfig, aborted |-> w.aborted]
  /\ UNCHANGED <<validTiles, inp, cfgvars, pvars>>

NextEnum == Expand \/ Resolve \/ WriteFiles

SpecEnum == InitEnum /\ [][NextEnum]_vars

(***************************************************************************)
(* Claims about the enumeration.                                           *)
(***************************************************************************)
\* the candidate descriptor of permutation i, stated from the inputs: the
\* permutation's value of a parameter, else the constant one, else the default
Candidate(i) ==
  LET perm == inp.forkPermutations[i]
      val(k) == IF k \in DOMAIN perm THEN perm[k]
                ELSE IF k \in DOMAIN inp.constantParams
                     THEN inp.constantParams[k]
                     ELSE 64
  IN  [ProblemType |-> inp.problemType,
       MacroTile0 |-> val("MacroTile0"), MacroTile1 |-> val("MacroTile1"),
       KernelLanguage |-> "Source", CustomKernelName |-> "",
       Valid |-> (<<val("MacroTile0"), val("MacroTile1")>> \in validTiles)]

\* permutation i is kept: valid, and no earlier candidate is value-equal to it
CandidateKept(i) ==
  /\ Candidate(i).Valid
  /\ \A j \in 1..(i - 1) : Candidate(j) # Candidate(i)

KeptIndices == {i \in 1..Len(inp.forkPermutations) : CandidateKept(i)}

\* C1: the list returned by generateForkedSolutions holds no two value-equal
\* descriptors, and every descriptor in it has Valid = TRUE.
C1_NoDuplicateAllValid ==
  out.kind = "forked" =>
    /\ \A i, j \in 1..Len(out.solutions) :
         i # j => out.solutions[i] # out.solutions[j]
    /\ \A i \in 1..Len(out.solutions) : out.solutions[i].Valid = TRUE

\* a call whose permutations hold a valid candidate twice and an invalid one
C1_Witness ==
  /\ out.kind = "forked"
  /\ Len(out.solutions) >= 1
  /\ \E i, j \in 1..Len(inp.forkPermutations) :
       i < j /\ Candidate(i) = Candidate(j) /\ Candidate(i).Valid
  /\ \E i \in 1..Len(inp.forkPermutations) : ~Candidate(i).Valid

\* C2: generateForkedSolutions is an order-preserving filter: its output is the
\* candidates {ProblemType} + constantParams + permutation, in the order of the
\* permutations, a candidate being kept iff it is valid and not value-equal to
\* an earlier one; so the output is a function of the inputs alone.
C2_OrderPreservingFilter ==
  out.kind = "forked" =>
    /\ Len(out.solutions) = Cardinality(KeptIndices)
    /\ \A i \in KeptIndices :
         out.solutions[Cardinality({j \in KeptIndices : j <= i})] = Candidate(i)

\* a call that drops a candidate between two kept ones, with a permutation
\* overriding a constant parameter
C2_Witness ==
  /\ out.kind = "forked"
  /\ \E i, j, k \in 1..Len(inp.forkPermutations) :
       /\ i < j /\ j < k
       /\ CandidateKept(i) /\ ~CandidateKept(j) /\ CandidateKept(k)
  /\ \E i \in KeptIndices : \E p \in DOMAIN inp.constantParams :
       /\ p \in DOMAIN inp.forkPermutations[i]
       /\ inp.forkPermutations[i][p] # inp.constantParams[p]

\* custom kernel i of the call has a stored ProblemType other than the benchmark's
KernelMismatched(i) ==
  CustomKernelConfig(inp.customKernels[i]).ProblemType # inp.problemType

\* custom kernel i of the call is accepted: its ProblemType matches and its
\* tiles are valid
KernelAccepted(i) ==
  LET c == CustomKernelConfig(inp.customKernels[i])
  IN  /\ c.ProblemType = inp.problemType
      /\ <<c.MacroTile0, c.MacroTile1>> \in validTiles

AcceptedIndices == {i \in 1..Len(inp.customKernels) : KernelAccepted(i)}

\* C4: a custom kernel whose stored ProblemType differs from the benchmark's
\* aborts the resolution when failOnMismatch is set; when it is not set the
\* kernel contributes no descriptor and the resolution goes on without an
\* abort: the remaining names are resolved, each accepted one in its place.
C4_MismatchHandling ==
  (out.kind = "custom" /\ \E i \in 1..Len(inp.customKernels) : KernelMismatched(i)) =>
    IF inp.failOnMismatch
    THEN out.aborted
    ELSE /\ ~out.aborted
         /\ \A n \in 1..Len(out.solutions) :
              \A i \in 1..Len(inp.customKernels) :
                KernelMismatched(i) =>
                  out.solutions[n].CustomKernelName # inp.customKernels[i]
         /\ Len(out.solutions) = Cardinality(AcceptedIndices)
         /\ \A i \in AcceptedIndices :
              out.solutions[Cardinality({j \in AcceptedIndices : j <= i})]
                .CustomKernelName = inp.customKernels[i]

\* a tolerant call with a mismatched kernel followed by an accepted one
C4_Witness ==
  /\ out.kind = "custom"
  /\ ~inp.failOnMismatch
  /\ ~out.aborted
  /\ \E i, j \in 1..Len(inp.customKernels) :
       i < j /\ KernelMismatched(i) /\ KernelAccepted(j)
  /\ Len(out.solutions) >= 1

RECURSIVE MaxOf(_)
\* the largest number of a finite set of naturals, 0 for the empty set
MaxOf(S) ==
  IF S = {} THEN 0
  ELSE LET x == CHOOSE y \in S : TRUE
           m == MaxOf(S \ {x})
       IN  IF x > m THEN x ELSE m

\* the tiles of the solutions handed to writeClientConfig by the call
WrittenTiles(name) ==
  {out.clientConfig.solutions[i][name] : i \in 1..Len(out.clientConfig.solutions)}

\* C11: when the problem type requests tile aware selection, the problem sizes
\* writeBenchmarkFiles hands to writeClientConfig are, in place of the caller's
\* sizes, one exact entry per summation size K of the list it was given, in
\* order: [M, N, K], or [M, N, 1, K] for a batched problem type, with
\* M = 36 x the largest MacroTile0 and N = 36 x the largest MacroTile1 over the
\* solutions; without tile aware selection the caller's sizes are handed on.
C11_TileAwareSizing ==
  out.kind = "written" =>
    LET sizes == out.clientConfig.problemSizes
        K == inp.solutionSummationSizes
        M == 36 * MaxOf(WrittenTiles("MacroTile0"))
        N == 36 * MaxOf(WrittenTiles("MacroTile1"))
    IN  IF inp.problemType.TileAwareSelection
        THEN /\ out.clientConfig.tileSelection
             /\ Len(sizes) = Len(K)
             /\ \A k \in 1..Len(K) :
                  sizes[k] = IF inp.problemType.Batched
                             THEN [Exact |-> <<M, N, 1, K[k]>>]
                             ELSE [Exact |-> <<M, N, K[k]>>]
        ELSE /\ ~out.clientConfig.tileSelection
             /\ sizes = inp.problemSizes

\* the call of the example: tiles (128, 64) and (64, 64), K in [256, 512],
\* batched, which gives M = 4608 and N = 2304
C11_Witness ==
  /\ out.kind = "written"
  /\ inp.problemType = [Batched |-> TRUE, TileAwareSelection |-> TRUE]
  /\ inp.tiles = <<<<64, 64>>, <<128, 64>>>>
  /\ inp.solutionSummationSizes = <<256, 512>>
  /\ out.clientConfig.problemSizes =
       <<[Exact |-> <<4608, 2304, 1, 256>>], [Exact |-> <<4608, 2304, 1, 512>>]>>

(***************************************************************************)
(* The driver and the pipeline: configurations.                            *)
(***************************************************************************)
\* the runs of the driver a behaviour holds
MaxRuns == 2
\* the benchmark steps of a configuration, over all its pairs, at most
MaxSteps == 2
\* the (problem type, size group) pairs of a configuration, at most
MaxPairs == 2

\* the kinds of benchmark step of the model:
\*   forks   two valid permutations, a duplicate of the first and an invalid
\*           one, with the custom kernels kB, kD (of invalid tiles) and kA,
\*           mismatches tolerated
\*   custom  no valid permutation; the custom kernel kA, a mismatch being fatal
\*   none    no valid permutation, no custom kernel
StepKinds ==
  {[constantParams |-> <<>>,
    forkPermutations |-> <<[MacroTile0 |-> 128], [MacroTile1 |-> 128],
                           [MacroTile0 |-> 128, MacroTile1 |-> 64],
                           [MacroTile0 |-> 128, MacroTile1 |-> 128]>>,
    customKernels |-> <<"kB", "kD", "kA">>, customKernelWildcard |-> TRUE],
   [constantParams |-> [MacroTile1 |-> 128],
    forkPermutations |-> <<[MacroTile0 |-> 128]>>,
    customKernels |-> <<"kA">>, customKernelWildcard |-> FALSE],
   [constantParams |-> [MacroTile0 |-> 128, MacroTile1 |-> 128],
    forkPermutations |-> <<<<>>>>,
    customKernels |-> <<>>, customKernelWildcard |-> FALSE]}

\* a benchmark step: a kind, its problem sizes and the flag isFinal()
BenchmarkStep(kind, final) ==
  [constantParams |-> kind.constantParams,
   forkPermutations |-> kind.forkPermutations,
   customKernels |-> kind.customKernels,
   customKernelWildcard |-> kind.customKernelWildcard,
   problemSizes |-> StepProblemSizes,
   isFinal |-> final]

\* the BenchmarkProcess objects of n steps, the last one being the final step
BenchmarkProcesses(n) ==
  {[i \in 1..n |-> BenchmarkStep(kinds[i], i = n)] : kinds \in [1..n -> StepKinds]}

\* the problem types of the benchmarked pairs
BenchmarkProblemTypes ==
  {[Batched |-> TRUE, TileAwareSelection |-> FALSE],
   [Batched |-> TRUE, TileAwareSelection |-> TRUE]}

\* a pair of the configuration with a process of n steps
PairConfigs(n) ==
  [problemType : BenchmarkProblemTypes, process : BenchmarkProcesses(n)]

RECURSIVE ConfigsOf(_, _)
\* the configurations of n pairs with at most budget steps in all
ConfigsOf(n, budget) ==
  IF n = 0 THEN {<<>>}
  ELSE UNION {
         {Append(c, p) : c \in ConfigsOf(n - 1, budget - k), p \in PairConfigs(k)}
         : k \in 0..budget}

\* the configurations of the model: one to MaxPairs pairs of one problem
\* type, MaxSteps steps in all
Configs ==
  {c \in UNION {ConfigsOf(n, MaxSteps) : n \in 1..MaxPairs} :
     \A p \in 1..Len(c) : c[p].problemType = c[1].problemType}

\* the validity predicate of the driver's runs: every tile pair but (128, 128)
DriverValidTiles == TilePairs \ {<<128, 128>>}

\* what the generator may fail to build
GenerationFailures == {{}, {<<128, 64>>}}

(***************************************************************************)
(* Files and the working path.                                             *)
(***************************************************************************)
\* pushWorkingPath, popWorkingPath; popping an empty stack leaves it empty
pushWorkingPath(path, folder) == Append(path, folder)

popWorkingPath(path) ==
  IF Len(path) = 0 THEN path ELSE SubSeq(path, 1, Len(path) - 1)

\* a file: the directory, the stem and the extension
File(dir, stem, ext) == [dir |-> dir, stem |-> stem, ext |-> ext]

Exists(file) == file \in DOMAIN disk

\* the disk after file is written with content
WriteFile(d, file, content) == (file :> content) @@ d

\* shutil.copy, for a source that exists
CopyFile(d, src, dst) == WriteFile(d, dst, d[src])

\* line 209: the group of a pair, named after the problem type and the index
GroupName(p) == <<"group", p>>

\* line 224: the name of a step
StepName(i) == <<"step", i>>

\* lines 284-285: normpath(WorkingPath/../Data/shortName)
ResultsFileBase(path, shortName) ==
  [dir |-> Append(popWorkingPath(path), <<"Data", 0>>), stem |-> shortName]

\* lines 321, 341-346: the promoted files of pair p, under dataPath
PromotedFile(p, ext) ==
  File(Append(entryPath, <<"Data", 0>>), GroupName(p), ext)

\* resultsFileBase + ext
BaseFile(base, ext) == File(base.dir, base.stem, ext)

(***************************************************************************)
(* main and benchmarkProblemType                                           *)
(***************************************************************************)
Pair == config[pairIdx]

Process == Pair.process

Step == Process[stepIdx]

HistoryUnchanged ==
  UNCHANGED <<clientLog, pipelineLog, promotedLog, prevRun, prevFailed>>

\* the log with the phases the step in progress has just gone through
Logged(phases) ==
  stepLog \o [n \in 1..Len(phases) |->
               [pair |-> pairIdx, step |-> stepIdx, phase |-> phases[n]]]

Ended == pc \in {"returned", "exit", "fatal", "crashed"}

Init ==
  /\ validTiles = DriverValidTiles
  /\ inp = <<>>
  /\ out = [kind |-> "none"]
  /\ config \in Configs
  /\ failsToGenerate \in GenerationFailures
  /\ runNo = 0
  /\ pc = "idle"
  /\ ForceRedo = FALSE
  /\ ExitOnFails = FALSE
  /\ WorkingPath = <<<<"root", 0>>>>
  /\ entryPath = <<<<"root", 0>>>>
  /\ pairIdx = 0
  /\ totalTestFails = 0
  /\ stepIdx = 0
  /\ benchmarkTestFails = 0
  /\ resultsFileBaseFinal = <<>>
  /\ resultsFileBase = <<>>
  /\ solutions = <<>>
  /\ clientConfig = <<>>
  /\ exitStatus = -1
  /\ abortReason = ""
  /\ disk = <<>>
  /\ clientLog = <<>>
  /\ pipelineLog = <<>>
  /\ promotedLog = <<>>
  /\ stepLog = <<>>
  /\ prevRun = "none"
  /\ prevFailed = {}

\* a run of the driver starts: a new process, the files of the earlier runs on
\* disk; main, lines 319-325
StartRun ==
  /\ pc = "idle" \/ Ended
  /\ runNo < MaxRuns
  /\ runNo' = runNo + 1
  /\ \E force \in BOOLEAN : ForceRedo' = force
  /\ ExitOnFails' = FALSE
  /\ entryPath' = <<<<"root", 0>>>>
  /\ WorkingPath' = pushWorkingPath(<<<<"root", 0>>>>, <<"BenchmarkProblems", 0>>)
  /\ totalTestFails' = 0
  /\ pairIdx' = 1
  /\ stepIdx' = 0
  /\ benchmarkTestFails' = 0
  /\ resultsFileBaseFinal' = <<>>
  /\ resultsFileBase' = <<>>
  /\ solutions' = <<>>
  /\ clientConfig' = <<>>
  /\ exitStatus' = -1
  /\ abortReason' = ""
  /\ clientLog' = <<>>
  /\ pipelineLog' = <<>>
  /\ promotedLog' = <<>>
  /\ stepLog' = <<>>
  /\ prevRun' = IF pc = "idle" THEN "none"
                 ELSE IF pc \in {"returned", "exit"} THEN "completed"
                 ELSE "aborted"
  /\ prevFailed' = {clientLog[n].pair :
                      n \in {m \in 1..Len(clientLog) : clientLog[m].returncode # 0}}
  /\ pc' = "main"
  /\ UNCHANGED <<evars, cfgvars, disk>>

\* a mutant of MustBenchmark: the negation of the existence test is lost
MustBenchmark_NotNegated(p) == ForceRedo \/ Exists(PromotedFile(p, ".csv"))

\* a mutant of MustBenchmark: a pair that failed in the previous run is run again
MustBenchmark_RetryFailed(p) ==
  ForceRedo \/ ~Exists(PromotedFile(p, ".csv")) \/ p \in prevFailed

\* a mutant of MustBenchmark: the pipeline is run for every pair
MustBenchmark_Always(p) == TRUE

\* lines 349-350: the pipeline of the pair is to be run
MustBenchmark(p) == ForceRedo \/ ~Exists(PromotedFile(p, ".csv"))

\* lines 370-372: the pair is skipped
MainSkip ==
  /\ pc = "main"
  /\ pairIdx <= Len(config)
  /\ ~MustBenchmark(pairIdx)
  /\ pairIdx' = pairIdx + 1
  /\ UNCHANGED <<evars, cfgvars, runNo, pc, ForceRedo, ExitOnFails, WorkingPath,
                 entryPath, totalTestFails, stepIdx, benchmarkTestFails,
                 resultsFileBaseFinal, resultsFileBase, solutions, clientConfig,
                 exitStatus, abortReason, disk, stepLog>>
  /\ HistoryUnchanged

\* lines 353-354 and 199-221: benchmarkProblemType is called and reaches its loop
PipelineStart ==
  /\ pc = "main"
  /\ pairIdx <= Len(config)
  /\ MustBenchmark(pairIdx)
  /\ benchmarkTestFails' = 0
  /\ WorkingPath' = pushWorkingPath(WorkingPath, GroupName(pairIdx))
  /\ resultsFileBaseFinal' = <<>>
  /\ stepIdx' = 1
  /\ pipelineLog' = Append(pipelineLog, pairIdx)
  /\ pc' = "step"
  /\ UNCHANGED <<evars, cfgvars, runNo, ForceRedo, ExitOnFails, entryPath, pairIdx,
                 totalTestFails, resultsFileBase, solutions, clientConfig,
                 exitStatus, abortReason, disk, clientLog, promotedLog, stepLog,
                 prevRun, prevFailed>>

\* a mutant of Enumerated: the custom kernel solutions come first
Enumerated_CustomFirst(problemType, step) ==
  LET regSolutions == generateForkedSolutions(problemType, step.constantParams,
                                              step.forkPermutations)
      kc == generateCustomKernelSolutions(problemType, step.customKernels,
                                          ~step.customKernelWildcard)
  IN  [aborted |-> kc.aborted, regSolutions |-> regSolutions,
       solutions |-> kc.solutions \o regSolutions]

\* lines 245-251: the candidates of a step, or the abort of line 98
Enumerated(problemType, step) ==
  LET regSolutions == generateForkedSolutions(problemType, step.constantParams,
                                              step.forkPermutations)
      kc == generateCustomKernelSolutions(problemType, step.customKernels,
                                          ~step.customKernelWildcard)
  IN  [aborted |-> kc.aborted, regSolutions |-> regSolutions,
       solutions |-> regSolutions \o kc.solutions]

\* a mutant of NoValidSolutions: only the forked solutions are counted
NoValidSolutions_ForkedOnly(e) ==
  Len(e.regSolutions) = 0

\* line 257
NoValidSolutions(e) ==
  Len(e.solutions) = 0

\* lines 222-265: Enumerate
StepEnumerate ==
  /\ pc = "step"
  /\ stepIdx <= Len(Process)
  /\ WorkingPath' = pushWorkingPath(pushWorkingPath(WorkingPath, StepName(stepIdx)),
                                    <<"source", 0>>)
  /\ LET e == Enumerated(Pair.problemType, Step)
     IN  IF e.aborted
         THEN /\ pc' = "fatal"
              /\ abortReason' = "custom kernel problem type mismatch"
              /\ exitStatus' = 255
              /\ solutions' = <<>>
         ELSE IF NoValidSolutions(e)
         THEN /\ pc' = "fatal"
              /\ abortReason' = "0 valid solutions"
              /\ exitStatus' = 255
              /\ solutions' = <<>>
         ELSE /\ pc' = "enumerated"
              /\ solutions' = e.solutions
              /\ UNCHANGED <<abortReason, exitStatus>>
  /\ UNCHANGED <<evars, cfgvars, runNo, ForceRedo, ExitOnFails, entryPath, pairIdx,
                 totalTestFails, stepIdx, benchmarkTestFails, resultsFileBaseFinal,
                 resultsFileBase, clientConfig, disk>>
  /\ stepLog' = Logged(<<"Enumerate">>)
  /\ HistoryUnchanged

\* lines 272-289: Materialize, then the places of the step's results
StepMaterialize ==
  /\ pc = "enumerated"
  /\ LET w == writeBenchmarkFiles(solutions, Step.problemSizes,
                                  StepName(stepIdx), <<>>)
     IN  /\ solutions' = w.solutions
         /\ clientConfig' = w.clientConfig
         /\ IF w.aborted
            THEN /\ pc' = "fatal"
                 /\ abortReason' = "0 solutions after the kernel writer"
                 /\ exitStatus' = 255
                 /\ UNCHANGED <<WorkingPath, resultsFileBase, resultsFileBaseFinal>>
            ELSE LET path == popWorkingPath(WorkingPath)
                     base == ResultsFileBase(path, StepName(stepIdx))
                 IN  /\ WorkingPath' = path
                     /\ resultsFileBase' = base
                     /\ resultsFileBaseFinal' =
                          IF Step.isFinal THEN base ELSE resultsFileBaseFinal
                     /\ pc' = "materialized"
                     /\ UNCHANGED <<abortReason, exitStatus>>
  /\ UNCHANGED <<evars, cfgvars, runNo, ForceRedo, ExitOnFails, entryPath, pairIdx,
                 totalTestFails, stepIdx, benchmarkTestFails, disk>>
  /\ stepLog' = Logged(<<"Materialize">>)
  /\ HistoryUnchanged

\* a mutant of MustRunClient: the force-redo flag is not consulted
MustRunClient_CacheOnly == ~Exists(BaseFile(resultsFileBase, ".csv"))

\* a mutant of MustRunClient: the results table is not looked for
MustRunClient_ForceOnly == ForceRedo

\* line 291: the client is to be run
MustRunClient == ~Exists(BaseFile(resultsFileBase, ".csv")) \/ ForceRedo

\* the client's effect on the disk: a client that returns 0 has written the
\* results table of the step; one that fails has written it or not. The
\* granularity table comes with the results under tile aware selection.
ClientWrites(d, base, wrote, enableTileSelection, stamp) ==
  IF ~wrote THEN d
  ELSE LET withCsv == WriteFile(d, BaseFile(base, ".csv"), stamp)
       IN  IF enableTileSelection
           THEN WriteFile(withCsv, BaseFile(base, "_Granularity.csv"), stamp)
           ELSE withCsv

\* a mutant of CountClientFailure: every invocation is counted
CountClientFailure_Always(fails, returncode) ==
  fails + 1

\* lines 296-297
CountClientFailure(fails, returncode) ==
  IF returncode # 0 THEN fails + 1 ELSE fails

\* lines 291-299: RunClient
StepRunClient ==
  /\ pc = "materialized"
  /\ MustRunClient
  /\ \E returncode \in {0, 1} : \E wrote \in BOOLEAN :
       /\ returncode = 0 => wrote
       /\ benchmarkTestFails' = CountClientFailure(benchmarkTestFails, returncode)
       /\ disk' = ClientWrites(disk, resultsFileBase, wrote,
                               Pair.problemType.TileAwareSelection,
                               [run |-> runNo, pair |-> pairIdx, step |-> stepIdx])
       /\ clientLog' = Append(clientLog,
                              [pair |-> pairIdx, step |-> stepIdx,
                               returncode |-> returncode])
  /\ stepLog' = Logged(<<"CheckCache", "RunClient">>)
  /\ pc' = "ran"
  /\ UNCHANGED <<evars, cfgvars, runNo, ForceRedo, ExitOnFails, WorkingPath,
                 entryPath, pairIdx, totalTestFails, stepIdx, resultsFileBaseFinal,
                 resultsFileBase, solutions, clientConfig, exitStatus, abortReason,
                 pipelineLog, promotedLog, prevRun, prevFailed>>

\* a mutant of AfterSkipCached: the else branch goes on with the next
\* iteration of the loop, past the end of the step
AfterSkipCached_NextIteration == "step"

\* lines 300-304: the else branch falls through to the end of the step
AfterSkipCached == "ran"

\* lines 300-301: SkipCached
StepSkipCached ==
  /\ pc = "materialized"
  /\ ~MustRunClient
  /\ stepLog' = Logged(<<"CheckCache", "SkipCached">>)
  /\ pc' = AfterSkipCached
  /\ UNCHANGED <<evars, cfgvars, runNo, ForceRedo, ExitOnFails, WorkingPath,
                 entryPath, pairIdx, totalTestFails, stepIdx, benchmarkTestFails,
                 resultsFileBaseFinal, resultsFileBase, solutions, clientConfig,
                 exitStatus, abortReason, disk>>
  /\ HistoryUnchanged

\* lines 303-311: Persist and the end of the iteration
StepPersist ==
  /\ pc = "ran"
  /\ disk' = WriteFile(disk, BaseFile(resultsFileBase, ".yaml"),
                       [problemSizes |-> Step.problemSizes, solutions |-> solutions])
  /\ WorkingPath' = popWorkingPath(WorkingPath)
  /\ stepIdx' = stepIdx + 1
  /\ pc' = "step"
  /\ UNCHANGED <<evars, cfgvars, runNo, ForceRedo, ExitOnFails, entryPath, pairIdx,
                 totalTestFails, benchmarkTestFails, resultsFileBaseFinal,
                 resultsFileBase, solutions, clientConfig, exitStatus, abortReason>>
  /\ stepLog' = Logged(<<"Persist", "Done">>)
  /\ HistoryUnchanged

\* line 355
AddFailures(total, benchmarkErrors) ==
  total + benchmarkErrors

\* lines 313-314 and 353-355: the pipeline returns and main adds its failures
PipelineReturn ==
  /\ pc = "step"
  /\ stepIdx > Len(Process)
  /\ WorkingPath' = popWorkingPath(WorkingPath)
  /\ totalTestFails' = AddFailures(totalTestFails, benchmarkTestFails)
  /\ pc' = "promote"
  /\ UNCHANGED <<evars, cfgvars, runNo, ForceRedo, ExitOnFails, entryPath, pairIdx,
                 stepIdx, benchmarkTestFails, resultsFileBaseFinal, resultsFileBase,
                 solutions, clientConfig, exitStatus, abortReason, disk, stepLog>>
  /\ HistoryUnchanged

\* lines 361-369: the artifacts of the final step are copied to the stable
\* names. None + ".csv" raises, and so does the copy of a file that is not there.
MainPromote ==
  /\ pc = "promote"
  /\ IF resultsFileBaseFinal = <<>>
     THEN /\ pc' = "crashed"
          /\ abortReason' = "TypeError: resultsFileBaseFinal is None"
          /\ exitStatus' = 1
          /\ UNCHANGED <<disk, pairIdx, promotedLog>>
     ELSE IF ~Exists(BaseFile(resultsFileBaseFinal, ".csv"))
     THEN /\ pc' = "crashed"
          /\ abortReason' = "FileNotFoundError: results table"
          /\ exitStatus' = 1
          /\ UNCHANGED <<disk, pairIdx, promotedLog>>
     ELSE LET d1 == CopyFile(disk, BaseFile(resultsFileBaseFinal, ".csv"),
                             PromotedFile(pairIdx, ".csv"))
              d2 == CopyFile(d1, BaseFile(resultsFileBaseFinal, ".yaml"),
                             PromotedFile(pairIdx, ".yaml"))
              d3 == IF Exists(BaseFile(resultsFileBaseFinal, "_Granularity.csv"))
                    THEN CopyFile(d2, BaseFile(resultsFileBaseFinal, "_Granularity.csv"),
                                  PromotedFile(pairIdx, ".gsp"))
                    ELSE d2
          IN  /\ disk' = d3
              /\ pairIdx' = pairIdx + 1
              /\ promotedLog' = Append(promotedLog, pairIdx)
              /\ pc' = "main"
              /\ UNCHANGED <<abortReason, exitStatus>>
  /\ UNCHANGED <<evars, cfgvars, runNo, ForceRedo, ExitOnFails, WorkingPath,
                 entryPath, totalTestFails, stepIdx, benchmarkTestFails,
                 resultsFileBaseFinal, resultsFileBase, solutions, clientConfig,
                 clientLog, pipelineLog, stepLog, prevRun, prevFailed>>

\* a mutant of ExitCode: the policy is not consulted
ExitCode_AnyFailure(exitOnFails, fails) ==
  IF fails # 0 THEN 1 ELSE 0

\* lines 376-377
ExitCode(exitOnFails, fails) ==
  IF exitOnFails /\ fails # 0 THEN 1 ELSE 0

\* lines 374-377: the pairs are done
MainFinish ==
  /\ pc = "main"
  /\ pairIdx > Len(config)
  /\ WorkingPath' = popWorkingPath(WorkingPath)
  /\ \E policy \in BOOLEAN :
       /\ ExitOnFails' = policy
       /\ exitStatus' = ExitCode(policy, totalTestFails)
       /\ pc' = IF ExitCode(policy, totalTestFails) # 0 THEN "exit" ELSE "returned"
  /\ UNCHANGED <<evars, cfgvars, runNo, ForceRedo, entryPath, pairIdx,
                 totalTestFails, stepIdx, benchmarkTestFails, resultsFileBaseFinal,
                 resultsFileBase, solutions, clientConfig, abortReason, disk,
                 stepLog>>
  /\ HistoryUnchanged

Next ==
  \/ StartRun
  \/ MainSkip
  \/ PipelineStart
  \/ StepEnumerate
  \/ StepMaterialize
  \/ StepRunClient
  \/ StepSkipCached
  \/ StepPersist
  \/ PipelineReturn
  \/ MainPromote
  \/ MainFinish

Spec == Init /\ [][Next]_vars

(***************************************************************************)
(* Claims about the pipeline and the driver.                               *)
(***************************************************************************)
InPipeline == pc \in {"step", "enumerated", "materialized", "ran"}

\* the enumeration of the step in progress has just ended, in an abort or not
EnumerationEnded ==
  \/ pc = "enumerated"
  \/ /\ pc = "fatal"
     /\ abortReason \in {"0 valid solutions", "custom kernel problem type mismatch"}

\* the tiles of permutation i of a step, with the constants and the defaults
PermTiles(step, i) ==
  LET val(k) == IF k \in DOMAIN step.forkPermutations[i]
                THEN step.forkPermutations[i][k]
                ELSE IF k \in DOMAIN step.constantParams
                     THEN step.constantParams[k]
                     ELSE 64
  IN  <<val("MacroTile0"), val("MacroTile1")>>

\* every fork permutation of the step is invalid
AllPermutationsInvalid(step) ==
  \A i \in 1..Len(step.forkPermutations) : PermTiles(step, i) \notin validTiles

\* custom kernel i of the step is accepted for problem type pt
StepKernelAccepted(pt, step, i) ==
  LET c == CustomKernelConfig(step.customKernels[i])
  IN  c.ProblemType = pt /\ <<c.MacroTile0, c.MacroTile1>> \in validTiles

\* the step's custom kernels contribute no descriptor: a mismatch is fatal, or
\* no kernel is accepted
NoCustomContribution(pt, step) ==
  \/ /\ ~step.customKernelWildcard
     /\ \E i \in 1..Len(step.customKernels) :
          CustomKernelConfig(step.customKernels[i]).ProblemType # pt
  \/ \A i \in 1..Len(step.customKernels) : ~StepKernelAccepted(pt, step, i)

\* C3, as stated: if every fork permutation of a step is invalid, expand
\* returns the empty list and the enumeration of the step aborts fatally,
\* whatever custom kernels the step names.
C3_Original ==
  (EnumerationEnded /\ AllPermutationsInvalid(Step)) =>
    /\ generateForkedSolutions(Pair.problemType, Step.constantParams,
                               Step.forkPermutations) = <<>>
    /\ pc = "fatal"

\* C3, amended: if every fork permutation of a step is invalid, expand returns
\* the empty list, and the enumeration of the step aborts fatally exactly when
\* the step's custom kernels contribute no descriptor; otherwise the step goes
\* on with the custom kernel solutions alone.
C3_Amended ==
  (EnumerationEnded /\ AllPermutationsInvalid(Step)) =>
    /\ generateForkedSolutions(Pair.problemType, Step.constantParams,
                               Step.forkPermutations) = <<>>
    /\ (pc = "fatal") <=> NoCustomContribution(Pair.problemType, Step)
    /\ pc = "enumerated" =>
         /\ Len(solutions) >= 1
         /\ \A n \in 1..Len(solutions) : solutions[n].CustomKernelName # ""

\* a step without a valid permutation that goes on with a custom kernel
C3_Witness ==
  /\ pc = "enumerated"
  /\ AllPermutationsInvalid(Step)
  /\ Len(solutions) = 1
  /\ solutions[1].CustomKernelName = "kA"

\* the client invocations of this run that returned non-zero, for pair p
FailedInvocations(p) ==
  {i \in 1..Len(clientLog) : clientLog[i].pair = p /\ clientLog[i].returncode # 0}

AllFailedInvocations ==
  {i \in 1..Len(clientLog) : clientLog[i].returncode # 0}

\* the previous run of the driver went through all its pairs
PreviousRunCompleted == prevRun = "completed"

\* C5: a run of the driver that follows a completed run over the same pairs,
\* with the force-redo flag unset, finds the promoted results table of every
\* pair, never calls benchmarkProblemType and never invokes the client.
C5_CacheIdempotence ==
  (runNo >= 2 /\ PreviousRunCompleted /\ ~ForceRedo) =>
    /\ \A p \in 1..Len(config) : Exists(PromotedFile(p, ".csv"))
    /\ pipelineLog = <<>>
    /\ clientLog = <<>>
    /\ ~InPipeline /\ pc # "promote"

\* a second run, force-redo unset, that ended after a first run whose pipeline
\* ran the client and promoted its table
C5_Witness ==
  /\ runNo = 2 /\ PreviousRunCompleted /\ ~ForceRedo
  /\ pc = "returned"
  /\ Len(config) = 2
  /\ \A p \in 1..2 : disk[PromotedFile(p, ".csv")].run = 1

\* the final step of pair p: the last step flagged isFinal, 0 if there is none
FinalStepOf(p) ==
  LET finals == {i \in 1..Len(config[p].process) : config[p].process[i].isFinal}
  IN  IF finals = {} THEN 0 ELSE CHOOSE i \in finals : \A j \in finals : j <= i

\* the results files of step i of pair p, as the spec places them:
\* <group>/Data/<stepName>
StepFile(p, i, ext) ==
  File(<<<<"root", 0>>, <<"BenchmarkProblems", 0>>, <<"group", p>>, <<"Data", 0>>>>,
       <<"step", i>>, ext)

\* the pairs this run is done with
DonePairs == {p \in 1..Len(config) : p < pairIdx}

Invoked(p, i) ==
  \E n \in 1..Len(clientLog) : clientLog[n].pair = p /\ clientLog[n].step = i

\* C6: with the force-redo flag set, every pair the driver is done with had its
\* pipeline run and the client invoked for every step, whatever results tables
\* existed, and its promoted files are those of its final step.
C6_ForcedRerun ==
  (runNo >= 1 /\ ForceRedo) =>
    /\ \A p \in DonePairs :
         /\ \E n \in 1..Len(pipelineLog) : pipelineLog[n] = p
         /\ \A i \in 1..Len(config[p].process) : Invoked(p, i)
         /\ FinalStepOf(p) # 0
         /\ Exists(PromotedFile(p, ".csv")) /\ Exists(PromotedFile(p, ".yaml"))
         /\ disk[PromotedFile(p, ".csv")] = disk[StepFile(p, FinalStepOf(p), ".csv")]
         /\ disk[PromotedFile(p, ".yaml")] = disk[StepFile(p, FinalStepOf(p), ".yaml")]
    /\ (InPipeline \/ pc = "promote") =>
         \A i \in 1..Len(Process) :
           (i < stepIdx \/ (i = stepIdx /\ pc = "ran")) => Invoked(pairIdx, i)

\* a forced second run that has replaced, by the table of its own client run,
\* the promoted table that the first run left
C6_Witness ==
  /\ runNo = 2 /\ ForceRedo /\ PreviousRunCompleted
  /\ pc = "returned"
  /\ disk[PromotedFile(1, ".csv")].run = 2

\* C7: when main is through all the pairs, the process ends with status 1 iff
\* the exit-on-failures policy is on and some client invocation of the run
\* returned non-zero; otherwise main returns normally, status 0.
C7_ExitStatus ==
  (pc \in {"returned", "exit"}) =>
    /\ (exitStatus = 1) <=> (ExitOnFails /\ AllFailedInvocations # {})
    /\ (pc = "exit") <=> (exitStatus = 1)
    /\ (pc = "returned") <=> (exitStatus = 0)

\* a run that ended with status 1 for a failure in its first pair only
C7_Witness ==
  /\ pc = "exit" /\ exitStatus = 1
  /\ Len(config) = 2
  /\ FailedInvocations(1) # {} /\ FailedInvocations(2) = {}

\* C8, as stated: a non-zero return code of the client is a recoverable
\* failure; the step persists and pops, the later steps run, and neither the
\* pipeline nor the driver is aborted by it, the final step included.
C8_Original ==
  \A n \in AllFailedInvocations :
    LET e == clientLog[n]
    IN  \* the failure is counted
        /\ (e.pair = pairIdx /\ (InPipeline \/ pc = "promote")) =>
             benchmarkTestFails >= 1
        \* the step persists its side-car and pops its working path
        /\ (e.pair = pairIdx /\ pc = "step" /\ e.step < stepIdx) =>
             /\ Exists(StepFile(e.pair, e.step, ".yaml"))
             /\ Len(WorkingPath) = Len(entryPath) + 2
        \* the driver is not aborted by it: the copy of the results does not raise
        /\ ~(pc = "crashed" /\ abortReason = "FileNotFoundError: results table")

\* C9: the failure count of a pipeline is the number of its steps whose client
\* invocation returned non-zero, each step counting at most once, steps
\* skipped and solutions pruned counting nothing; main's total is the sum over
\* the pairs whose pipeline returned.
C9_FailureCount ==
  /\ (InPipeline \/ pc = "promote") =>
       benchmarkTestFails = Cardinality(FailedInvocations(pairIdx))
  /\ InPipeline =>
       totalTestFails = Cardinality(AllFailedInvocations \ FailedInvocations(pairIdx))
  /\ pc \in {"promote", "main", "returned", "exit"} =>
       totalTestFails = Cardinality(AllFailedInvocations)
  /\ \A m, n \in 1..Len(clientLog) :
       (clientLog[m].pair = clientLog[n].pair /\ clientLog[m].step = clientLog[n].step)
         => m = n

\* two pipelines returned, each with one failed client run, a solution having
\* been pruned by the generator
C9_Witness ==
  /\ pc = "main" /\ pairIdx = 3
  /\ totalTestFails = 2
  /\ Cardinality(FailedInvocations(1)) = 1 /\ Cardinality(FailedInvocations(2)) = 1
  /\ failsToGenerate # {}

\* C10, as stated: the working-path stack is back at its depth before the step
\* after every step, every push is matched by a pop on every exit path, the
\* early aborts included, and the stack after benchmarkProblemType and after
\* main is the stack on entry.
C10_Original ==
  /\ pc = "step" =>
       WorkingPath = <<<<"root", 0>>, <<"BenchmarkProblems", 0>>, <<"group", pairIdx>>>>
  /\ pc \in {"main", "promote"} =>
       WorkingPath = <<<<"root", 0>>, <<"BenchmarkProblems", 0>>>>
  /\ Ended => WorkingPath = entryPath

\* entry n of the step log follows the entry that the order of the phases
\* of a step allows
FollowsInOrder(n) ==
  LET e == stepLog[n]
      sameStepAfter(phases) ==
        /\ n > 1
        /\ stepLog[n - 1].pair = e.pair /\ stepLog[n - 1].step = e.step
        /\ stepLog[n - 1].phase \in phases
  IN  CASE e.phase = "Enumerate" ->
             \* the first step of a pipeline, or the step after one that is Done
             \/ e.step = 1 /\ (n = 1 \/ (stepLog[n - 1].phase = "Done"
                                          /\ stepLog[n - 1].pair < e.pair))
             \/ /\ n > 1 /\ e.step > 1
                /\ stepLog[n - 1] = [pair |-> e.pair, step |-> e.step - 1,
                                     phase |-> "Done"]
        [] e.phase = "Materialize" -> sameStepAfter({"Enumerate"})
        [] e.phase = "CheckCache"  -> sameStepAfter({"Materialize"})
        [] e.phase = "RunClient"   -> sameStepAfter({"CheckCache"})
        [] e.phase = "SkipCached"  -> sameStepAfter({"CheckCache"})
        [] e.phase = "Persist"     -> sameStepAfter({"RunClient", "SkipCached"})
        [] e.phase = "Done"        -> sameStepAfter({"Persist"})
        [] OTHER -> FALSE

\* the place of an entry in the order of a run: by pair, then by step, then
\* by phase, RunClient and SkipCached being at the same place
PhaseRank(e) ==
  LET phase == CASE e.phase = "Enumerate"   -> 1
                 [] e.phase = "Materialize" -> 2
                 [] e.phase = "CheckCache"  -> 3
                 [] e.phase = "Persist"     -> 5
                 [] e.phase = "Done"        -> 6
                 [] OTHER                   -> 4
  IN  (e.pair * 100 + e.step) * 10 + phase

\* step i of pair p went through all its phases, from entry n of the log on
WentThroughAt(n, p, i) ==
  /\ stepLog[n] = [pair |-> p, step |-> i, phase |-> "Enumerate"]
  /\ stepLog[n + 1] = [pair |-> p, step |-> i, phase |-> "Materialize"]
  /\ stepLog[n + 2] = [pair |-> p, step |-> i, phase |-> "CheckCache"]
  /\ \/ stepLog[n + 3] = [pair |-> p, step |-> i, phase |-> "RunClient"]
     \/ stepLog[n + 3] = [pair |-> p, step |-> i, phase |-> "SkipCached"]
  /\ stepLog[n + 4] = [pair |-> p, step |-> i, phase |-> "Persist"]
  /\ stepLog[n + 5] = [pair |-> p, step |-> i, phase |-> "Done"]

\* the entries of the step log for a phase of step i of pair p
PhaseEntries(p, i, phase) ==
  {n \in 1..Len(stepLog) : stepLog[n] = [pair |-> p, step |-> i, phase |-> phase]}

\* the pairs whose pipeline has returned in this run
ReturnedPairs ==
  {p \in 1..Len(config) :
     /\ \E n \in 1..Len(pipelineLog) : pipelineLog[n] = p
     /\ p < pairIdx \/ (p = pairIdx /\ pc \in {"promote", "crashed"})}

\* C12: the steps of a pipeline go through Enumerate, Materialize, CheckCache,
\* one of RunClient and SkipCached, Persist and Done, in that order: enumeration
\* and materialization come before the cache check also for a cached step, the
\* client is invoked at most once per step, Persist runs once whichever branch
\* was taken (no phase of a step occurs twice), a step starts only when the one
\* before it is Done, and every step of a pipeline that returned went through
\* all the phases.
C12_StepOrdering ==
  /\ \A n \in 1..Len(stepLog) : FollowsInOrder(n)
  /\ \A n \in 2..Len(stepLog) : PhaseRank(stepLog[n - 1]) < PhaseRank(stepLog[n])
  /\ LET ran == SelectSeq(stepLog, LAMBDA e : e.phase = "RunClient")
     IN  /\ Len(ran) = Len(clientLog)
         /\ \A n \in 1..Len(ran) :
              ran[n].pair = clientLog[n].pair /\ ran[n].step = clientLog[n].step
  /\ \A p \in ReturnedPairs : \A i \in 1..Len(config[p].process) :
       \E n \in 1..(Len(stepLog) - 5) : WentThroughAt(n, p, i)
  /\ (pc = "step" /\ stepIdx > 1) =>
       stepLog[Len(stepLog)] = [pair |-> pairIdx, step |-> stepIdx - 1, phase |-> "Done"]

\* a pipeline of two steps that returned, the first step cached and skipped
\* after its enumeration and materialization, the second run by the client
C12_Witness ==
  /\ pc = "promote"
  /\ Len(stepLog) = 12
  /\ PhaseEntries(pairIdx, 1, "SkipCached") # {}
  /\ PhaseEntries(pairIdx, 2, "RunClient") # {}
  /\ stepLog[Len(stepLog)] = [pair |-> pairIdx, step |-> 2, phase |-> "Done"]

\* C13: at the cache check of a step the client is invoked iff the force-redo
\* flag is set or the results table of the step does not exist at that moment;
\* the table is <group>/Data/<stepName>.csv, a function of the group and of the
\* step alone, whatever the earlier steps did; so a pipeline that is resumed
\* invokes the client exactly for the steps that have no results table.
C13_StepCacheCheck ==
  [][pc = "materialized" =>
       /\ BaseFile(resultsFileBase, ".csv") = StepFile(pairIdx, stepIdx, ".csv")
       /\ (clientLog' # clientLog) <=>
            (ForceRedo \/ ~Exists(StepFile(pairIdx, stepIdx, ".csv")))
       /\ (clientLog' # clientLog) =>
            /\ Len(clientLog') = Len(clientLog) + 1
            /\ clientLog'[Len(clientLog')].pair = pairIdx
            /\ clientLog'[Len(clientLog')].step = stepIdx
       /\ (clientLog' = clientLog) =>
            stepLog'[Len(stepLog')] =
              [pair |-> pairIdx, step |-> stepIdx, phase |-> "SkipCached"]]_vars

\* a pipeline resumed in a second run, force-redo unset: the first step has
\* its table and is skipped, the client is invoked for the second, which has none
C13_Witness ==
  /\ runNo = 2 /\ ~ForceRedo
  /\ pc = "ran" /\ stepIdx = 2
  /\ ~Invoked(pairIdx, 1) /\ Invoked(pairIdx, 2)
  /\ Exists(StepFile(pairIdx, 1, ".csv"))
  /\ disk[StepFile(pairIdx, 1, ".csv")].run = 1

\* C14: when the force-redo flag is unset and the promoted results table of
\* the pair main is at exists, main goes on to the next pair without running
\* the pipeline: no client is invoked, the failure total, the files on disk
\* (the promoted results, descriptors and granularity among them) and the
\* working-path stack are left as they were.
C14_OuterSkipFrame ==
  [][(/\ pc = "main"
      /\ pairIdx <= Len(config)
      /\ ~ForceRedo
      /\ Exists(PromotedFile(pairIdx, ".csv"))) =>
       /\ pairIdx' = pairIdx + 1
       /\ pc' = "main"
       /\ UNCHANGED <<disk, totalTestFails, WorkingPath, clientLog, pipelineLog,
                      stepLog, promotedLog, benchmarkTestFails, exitStatus>>]_vars

\* a second run, force-redo unset, that has skipped its first pair, promoted
\* by the first run, and is at its second pair, which has no promoted table
C14_Witness ==
  /\ runNo = 2 /\ ~ForceRedo
  /\ pc = "main" /\ pairIdx = 2 /\ Len(config) = 2
  /\ pipelineLog = <<>> /\ clientLog = <<>>
  /\ Exists(PromotedFile(1, ".csv")) /\ Exists(PromotedFile(1, ".yaml"))
  /\ ~Exists(PromotedFile(2, ".csv"))
  /\ totalTestFails = 0

\* the pairs this run has promoted
PromotedPairs == {promotedLog[n] : n \in 1..Len(promotedLog)}

\* the promoted files of pair p are the files of its final step
PromotedFromFinalStep(p) ==
  /\ FinalStepOf(p) # 0
  /\ Exists(PromotedFile(p, ".csv")) /\ Exists(PromotedFile(p, ".yaml"))
  /\ disk[PromotedFile(p, ".csv")] = disk[StepFile(p, FinalStepOf(p), ".csv")]
  /\ disk[PromotedFile(p, ".yaml")] = disk[StepFile(p, FinalStepOf(p), ".yaml")]
  /\ Exists(StepFile(p, FinalStepOf(p), "_Granularity.csv")) =>
       /\ Exists(PromotedFile(p, ".gsp"))
       /\ disk[PromotedFile(p, ".gsp")] =
            disk[StepFile(p, FinalStepOf(p), "_Granularity.csv")]

\* C15, as stated: for every pair that is not skipped, once its pipeline has
\* returned main copies the results table and the descriptor dump of the final
\* step to the stable names and goes on with the next pair, the granularity
\* table being copied only if it is there; this holds for every pipeline that
\* returns, one of zero steps included, with no error in the pipeline or in main.
C15_Original ==
  /\ \A p \in ReturnedPairs :
       /\ ~(p = pairIdx /\ pc = "crashed")
       /\ p < pairIdx => (p \in PromotedPairs /\ PromotedFromFinalStep(p))
  /\ \A p \in PromotedPairs : p \in ReturnedPairs

\* the tiles of the candidates of a step, stated from its configuration: those
\* of its valid permutations and of its accepted custom kernels
StepCandidateTiles(pt, step) ==
  {PermTiles(step, i) : i \in {j \in 1..Len(step.forkPermutations) :
                                  PermTiles(step, j) \in validTiles}}
  \cup
  {<<CustomKernelConfig(step.customKernels[i]).MacroTile0,
     CustomKernelConfig(step.customKernels[i]).MacroTile1>> :
     i \in {j \in 1..Len(step.customKernels) : StepKernelAccepted(pt, step, j)}}

\* the run has done nothing for the step in progress past the given phase,
\* nor for a later step or pair
StoppedAt(phase) ==
  /\ Len(stepLog) >= 1
  /\ stepLog[Len(stepLog)] = [pair |-> pairIdx, step |-> stepIdx, phase |-> phase]
  /\ ~Invoked(pairIdx, stepIdx)
  /\ PhaseEntries(pairIdx, stepIdx, "Persist") = {}
  /\ Exists(StepFile(pairIdx, stepIdx, ".yaml")) =>
       disk[StepFile(pairIdx, stepIdx, ".yaml")].run < runNo
  /\ pairIdx \notin PromotedPairs
  /\ Exists(PromotedFile(pairIdx, ".csv")) =>
       disk[PromotedFile(pairIdx, ".csv")].run < runNo
  /\ \A n \in 1..Len(clientLog) :
       clientLog[n].pair < pairIdx
         \/ (clientLog[n].pair = pairIdx /\ clientLog[n].step < stepIdx)
  /\ exitStatus = 255

\* C16: a step whose candidate list, forked and custom together, is empty
\* after the enumeration, or whose solutions are all pruned at the
\* materialization, ends the process there: the client is not invoked for the
\* step, no side-car file is persisted for it, no later step or pair is
\* processed and nothing is promoted for the pair.
C16_FatalOnEmpty ==
  /\ pc \in {"enumerated", "materialized", "ran"} =>
       StepCandidateTiles(Pair.problemType, Step) # {}
  /\ pc \in {"materialized", "ran"} =>
       ~(StepCandidateTiles(Pair.problemType, Step) \subseteq failsToGenerate)
  /\ (pc = "fatal" /\ abortReason = "0 valid solutions") =>
       /\ StepCandidateTiles(Pair.problemType, Step) = {}
       /\ StoppedAt("Enumerate")
  /\ (pc = "fatal" /\ abortReason = "0 solutions after the kernel writer") =>
       /\ StepCandidateTiles(Pair.problemType, Step) # {}
       /\ StepCandidateTiles(Pair.problemType, Step) \subseteq failsToGenerate
       /\ StoppedAt("Materialize")

\* a pipeline ended at the materialization of its second step, all of whose
\* solutions the generator failed to build, the first step being done
C16_Witness ==
  /\ pc = "fatal" /\ abortReason = "0 solutions after the kernel writer"
  /\ stepIdx = 2
  /\ PhaseEntries(pairIdx, 1, "Done") # {}
  /\ solutions = <<>>

\* the solutions of a step that survive the materialization, stated from the
\* enumeration: the candidates the generator can build, in order
SurvivingSolutions(pt, step) ==
  SelectSeq(Enumerated(pt, step).solutions,
            LAMBDA x : <<x.MacroTile0, x.MacroTile1>> \notin failsToGenerate)

\* C17, as stated: the side-car file of a step that reached Persist holds
\* exactly the solutions that survived the materialization, in order, with
\* the problem sizes that were used for the client configuration of the step,
\* whether the client ran, failed or was skipped.
C17_Original ==
  (pc = "step" /\ stepIdx > 1) =>
    LET sidecar == disk[StepFile(pairIdx, stepIdx - 1, ".yaml")]
    IN  /\ Exists(StepFile(pairIdx, stepIdx - 1, ".yaml"))
        /\ sidecar.solutions =
             SurvivingSolutions(Pair.problemType, Process[stepIdx - 1])
        /\ sidecar.solutions = clientConfig.solutions
        /\ sidecar.problemSizes = clientConfig.problemSizes

\* C18: a failure is never retried and skipping depends on the existence of
\* the results files alone: no step is invoked twice in a run, its client
\* having failed or not; a pair whose pipeline recorded client failures and
\* whose final results table exists is promoted all the same; and a later run
\* with the force-redo flag unset skips a pair so promoted, invokes no client
\* for it and adds nothing to the failure total for it.
C18_NoRetry ==
  /\ \A m, n \in 1..Len(clientLog) :
       (clientLog[m].pair = clientLog[n].pair /\ clientLog[m].step = clientLog[n].step)
         => m = n
  /\ \A p \in ReturnedPairs :
       (/\ FailedInvocations(p) # {}
        /\ ~(p = pairIdx /\ pc = "promote")
        /\ FinalStepOf(p) # 0
        /\ Exists(StepFile(p, FinalStepOf(p), ".csv"))) =>
         (p \in PromotedPairs /\ PromotedFromFinalStep(p))
  /\ (runNo >= 2 /\ ~ForceRedo) =>
       \A p \in prevFailed :
         (Exists(PromotedFile(p, ".csv")) /\ p \notin PromotedPairs) =>
           /\ \A n \in 1..Len(pipelineLog) : pipelineLog[n] # p
           /\ \A n \in 1..Len(clientLog) : clientLog[n].pair # p
           /\ ~(InPipeline /\ pairIdx = p)
           /\ pc \in {"returned", "exit"} =>
                totalTestFails = Cardinality({n \in AllFailedInvocations :
                                                clientLog[n].pair # p})

\* a second run, force-redo unset, that returned without running anything:
\* the first run had a client failure in its pair and promoted it all the same
C18_Witness ==
  /\ runNo = 2 /\ ~ForceRedo
  /\ pc = "returned"
  /\ prevFailed = {1}
  /\ Exists(PromotedFile(1, ".csv"))
  /\ pipelineLog = <<>> /\ clientLog = <<>>
  /\ totalTestFails = 0

\* the candidates of the call that are dropped, invalid or duplicate
DroppedIndices == {i \in 1..Len(inp.forkPermutations) : ~CandidateKept(i)}

\* the candidates a rejection notice was printed for
NoticedIndices == {out.rejected[n] : n \in 1..Len(out.rejected)}

\* C19, as stated: with PrintSolutionRejectionReason set, generateForkedSolutions
\* prints exactly one rejection notice per candidate it drops, be it invalid or
\* a duplicate of a kept one; with the flag unset it prints none; the list
\* returned is the same in both cases.
C19_Original ==
  out.kind = "forked" =>
    /\ inp.printReason =>
         /\ NoticedIndices = DroppedIndices
         /\ Len(out.rejected) = Cardinality(DroppedIndices)
    /\ ~inp.printReason => out.rejected = <<>>
    /\ out.solutions = ForkedRun(inp.problemType, inp.constantParams,
                                 inp.forkPermutations, ~inp.printReason).solutions

\* the forked candidates of a step, stated from its configuration: the
\* permutations of valid tiles, each at its first occurrence, in order
ExpectedForked(pt, step) ==
  LET kept(i) == /\ PermTiles(step, i) \in validTiles
                 /\ \A j \in 1..(i - 1) : PermTiles(step, j) # PermTiles(step, i)
      sel == SelectSeq([i \in 1..Len(step.forkPermutations) |-> i], kept)
  IN  [n \in 1..Len(sel) |->
        [ProblemType |-> pt,
         MacroTile0 |-> PermTiles(step, sel[n])[1],
         MacroTile1 |-> PermTiles(step, sel[n])[2],
         KernelLanguage |-> "Source", CustomKernelName |-> "", Valid |-> TRUE]]

\* the custom kernel candidates of a step: the kernels whose stored problem
\* type is the benchmark's and whose tiles are valid, in the order of the names
ExpectedCustom(pt, step) ==
  LET accepted(i) == StepKernelAccepted(pt, step, i)
      sel == SelectSeq([i \in 1..Len(step.customKernels) |-> i], accepted)
  IN  [n \in 1..Len(sel) |->
        LET c == CustomKernelConfig(step.customKernels[sel[n]])
        IN  [ProblemType |-> pt,
             MacroTile0 |-> c.MacroTile0, MacroTile1 |-> c.MacroTile1,
             KernelLanguage |-> "Assembly",
             CustomKernelName |-> step.customKernels[sel[n]], Valid |-> TRUE]]

\* a custom kernel of the step has a stored problem type other than pt
StepKernelMismatch(pt, step) ==
  \E i \in 1..Len(step.customKernels) :
    CustomKernelConfig(step.customKernels[i]).ProblemType # pt

=============================================================================
